---- MODULE Spec2Model ----
(***************************************************************************)
(* Verification model of the claims CLI render -> review -> publish        *)
(* pipeline (stuttgart-things/claims): parameter resolution, the render    *)
(* loop, the interactive review loop, the Output Writer, the registry     *)
(* update and the GitOps publisher.                                        *)
(***************************************************************************)
EXTENDS Integers, Sequences, FiniteSets, TLC

\* ------------------------------------------------------------------------
\* Bounds of the model
\* ------------------------------------------------------------------------
\* longest template list of one run (and longest result list handed to the writer)
MaxTemplates == 2
\* most edit iterations of the review loop that are explored
MaxEdits == 1
\* most calls of a sequence of calls made on one object (registry list,
\* repository, parameter map)
MaxOps == 3

\* ------------------------------------------------------------------------
\* Value domains
\* ------------------------------------------------------------------------
\* template names the render service knows
Catalog == {"ta", "tb"}
\* template names a user may ask for ("tx" is not in the catalog)
TemplateNames == Catalog \cup {"tx"}
\* parameter maps as sets of <<key, value>> pairs with at most one pair per
\* key; only the `name` key is read by the pipeline itself
ParamValues == {"n1"}
EmptyMap == {}
ParamMaps == {EmptyMap} \cup {{<<"name", v>>} : v \in ParamValues}
\* resource names a result may carry ("" on a result that never rendered)
ResourceNames == {"output"} \cup ParamValues

NL == "\n"
SEP == "---"
\* rendered texts as token sequences; NL is whitespace, no text contains SEP
Contents == {<<"a">>, <<NL, "b", NL>>, <<>>}

\* filename patterns as token sequences: "T" is {{.template}}, "N" is {{.name}},
\* "{{" is an unterminated action (malformed), anything else a literal
PatDefault == <<"T", "-", "N", ".yaml">>
PatNameOnly == <<"N", ".yaml">>
PatBad == <<"{{", ".yaml">>
Patterns == {PatDefault, PatNameOnly, PatBad}

NoPath == <<>>
NoErr == ""

\* ------------------------------------------------------------------------
\* RenderResult
\* ------------------------------------------------------------------------
RenderResult(t, rn, c, p, e) ==
    [TemplateName |-> t, ResourceName |-> rn, OutputPath |-> NoPath,
     Content |-> c, Params |-> p, Error |-> e]

RECURSIVE SuccessCount(_)
SuccessCount(rs) ==
    IF rs = <<>> THEN 0
    ELSE (IF Head(rs).Error THEN 0 ELSE 1) + SuccessCount(Tail(rs))

HasErrors(rs) == \E i \in 1..Len(rs) : rs[i].Error

\* ------------------------------------------------------------------------
\* Output Writer
\* ------------------------------------------------------------------------
RECURSIVE TrimLeft(_)
TrimLeft(s) == IF s # <<>> /\ Head(s) = NL THEN TrimLeft(Tail(s)) ELSE s

RECURSIVE TrimRight(_)
TrimRight(s) ==
    IF s # <<>> /\ s[Len(s)] = NL THEN TrimRight(SubSeq(s, 1, Len(s) - 1)) ELSE s

TrimSpace(s) == TrimRight(TrimLeft(s))

RECURSIVE ExpandPattern(_, _)
ExpandPattern(pattern, info) ==
    IF pattern = <<>> THEN <<>>
    ELSE LET tok == Head(pattern)
             val == IF tok = "T" THEN info.TemplateName
                    ELSE IF tok = "N" THEN info.ResourceName
                    ELSE tok
         IN <<val>> \o ExpandPattern(Tail(pattern), info)

\* template.Parse fails on an unterminated action; otherwise the placeholders
\* are replaced by the template and resource name
GenerateFilename(pattern, info) ==
    IF \E i \in 1..Len(pattern) : pattern[i] = "{{"
    THEN [err |-> "invalid filename pattern", name |-> NoPath]
    ELSE [err |-> NoErr, name |-> ExpandPattern(pattern, info)]

\* variant: the combined file is named after the first result without error
CombinedFilenameFirstSuccess(results) ==
    IF \E i \in 1..Len(results) : ~results[i].Error
    THEN <<results[CHOOSE i \in 1..Len(results) :
                      ~results[i].Error /\ \A j \in 1..(i - 1) : results[j].Error].TemplateName,
           "-combined.yaml">>
    ELSE <<"combined-claims.yaml">>

\* name of the combined file: taken from results[0]
CombinedFilename(results) ==
    IF Len(results) > 0 /\ results[1].TemplateName # ""
    THEN <<results[1].TemplateName, "-combined.yaml">>
    ELSE <<"combined-claims.yaml">>

\* variant: the separator is written before every successful result
RECURSIVE CombineFromAlwaysSep(_, _, _)
CombineFromAlwaysSep(results, i, combined) ==
    IF i > Len(results) THEN combined
    ELSE IF results[i].Error THEN CombineFromAlwaysSep(results, i + 1, combined)
    ELSE LET c1 == combined \o <<NL, SEP, NL>>
             c2 == c1 \o TrimSpace(results[i].Content)
             c3 == IF i < Len(results) THEN c2 \o <<NL>> ELSE c2
         IN CombineFromAlwaysSep(results, i + 1, c3)

\* the loop of writeSingleFile from result i on, combined being the text so far
RECURSIVE CombineFrom(_, _, _)
CombineFrom(results, i, combined) ==
    IF i > Len(results) THEN combined
    ELSE IF results[i].Error THEN CombineFrom(results, i + 1, combined)
    ELSE LET c1 == IF Len(combined) > 0 THEN combined \o <<NL, SEP, NL>> ELSE combined
             c2 == c1 \o TrimSpace(results[i].Content)
             c3 == IF i < Len(results) THEN c2 \o <<NL>> ELSE c2
         IN CombineFrom(results, i + 1, c3)

\* a directory's files as a set of [name, content] records, one per name;
\* os.WriteFile creates the file or replaces its content
PutFile(files, name, content) ==
    {f \in files : f.name # name} \cup {[name |-> name, content |-> content]}

\* io: how many file writes succeed before os.WriteFile reports an error
writeSingleFile(results, config, files, io) ==
    LET combined == CombineFrom(results, 1, <<>>)
        filename == CombinedFilename(results)
    IN IF io < 1
       THEN [err |-> "writing combined file", results |-> results, files |-> files]
       ELSE [err |-> NoErr, results |-> results,
             files |-> PutFile(files, filename, combined)]

RECURSIVE SeparateFrom(_, _, _, _, _)
SeparateFrom(results, config, files, io, i) ==
    IF i > Len(results) THEN [err |-> NoErr, results |-> results, files |-> files]
    ELSE IF results[i].Error THEN SeparateFrom(results, config, files, io, i + 1)
    ELSE LET gen == GenerateFilename(config.FilenamePattern,
                        [TemplateName |-> results[i].TemplateName,
                         ResourceName |-> results[i].ResourceName])
         IN IF gen.err # NoErr
            THEN [err |-> gen.err, results |-> results, files |-> files]
            ELSE IF io < 1
            THEN [err |-> "writing file", results |-> results, files |-> files]
            ELSE SeparateFrom([results EXCEPT ![i].OutputPath = gen.name], config,
                              PutFile(files, gen.name, results[i].Content),
                              io - 1, i + 1)

writeSeparateFiles(results, config, files, io) ==
    SeparateFrom(results, config, files, io, 1)

\* variant: the dry run creates the output directory before printing
printDryRunMkdir(results, config, files, dir) ==
    [err |-> NoErr, results |-> results, files |-> files, dir |-> TRUE]

\* prints only: nothing is written, no error is returned
printDryRun(results, config, files, dir) ==
    [err |-> NoErr, results |-> results, files |-> files, dir |-> dir]

\* dir: does the output directory exist; mk: does os.MkdirAll succeed
WriteResults(results, config, files, dir, mk, io) ==
    IF config.DryRun THEN printDryRun(results, config, files, dir)
    ELSE IF ~mk
    THEN [err |-> "creating output directory", results |-> results,
          files |-> files, dir |-> dir]
    ELSE LET w == IF config.SingleFile
                  THEN writeSingleFile(results, config, files, io)
                  ELSE writeSeparateFiles(results, config, files, io)
         IN [err |-> w.err, results |-> w.results, files |-> w.files, dir |-> TRUE]

\* ------------------------------------------------------------------------
\* Parameter Resolver
\* ------------------------------------------------------------------------
HasKey(m, k) == \E kv \in m : kv[1] = k
Lookup(m, k) == (CHOOSE kv \in m : kv[1] = k)[2]

\* variant: on a key collision the file value wins
MergeParamsFileWins(fileParams, inlineParams) ==
    fileParams \cup {kv \in inlineParams : ~HasKey(fileParams, kv[1])}

\* a new map: the file pairs, then the inline pairs written over them
MergeParams(fileParams, inlineParams) ==
    {kv \in fileParams : ~HasKey(inlineParams, kv[1])} \cup inlineParams

TemplateParams(n, p) == [Name |-> n, Parameters |-> p]

\* index of the first entry called name, 0 if there is none
FirstIndex(tps, name) ==
    IF \E i \in 1..Len(tps) : tps[i].Name = name
    THEN CHOOSE i \in 1..Len(tps) :
            /\ tps[i].Name = name
            /\ \A j \in 1..(i - 1) : tps[j].Name # name
    ELSE 0

\* the --templates loop of runNonInteractive: merge into the first file entry
\* of that name, or append a new entry carrying the inline parameters
RECURSIVE ApplyTemplatesFlag(_, _, _)
ApplyTemplatesFlag(tps, names, inline) ==
    IF names = <<>> THEN tps
    ELSE LET i == FirstIndex(tps, Head(names))
             next == IF i # 0
                     THEN [tps EXCEPT ![i].Parameters = MergeParams(tps[i].Parameters, inline)]
                     ELSE Append(tps, TemplateParams(Head(names), inline))
         IN ApplyTemplatesFlag(next, Tail(names), inline)

ResolveParams(fileEntries, names, inline) ==
    IF Len(names) > 0
    THEN ApplyTemplatesFlag(fileEntries, names, inline)
    ELSE [i \in 1..Len(fileEntries) |->
            [fileEntries[i] EXCEPT !.Parameters = MergeParams(@, inline)]]

\* fmt.Sprintf("%v", name): parameter values are strings in the model
Sprintv(v) == v

ResourceNameOf(parameters) ==
    IF HasKey(parameters, "name") THEN Sprintv(Lookup(parameters, "name")) ELSE "output"

\* ------------------------------------------------------------------------
\* Credentials
\* ------------------------------------------------------------------------
FirstNonEmpty(a, b) == IF a # "" THEN a ELSE b

\* variant: the environment is consulted before the configured value
ResolveCredentialsOptionalEnvFirst(user, token, env) ==
    [user |-> FirstNonEmpty(FirstNonEmpty(env.GIT_USER, env.GITHUB_USER), user),
     token |-> FirstNonEmpty(FirstNonEmpty(env.GIT_TOKEN, env.GITHUB_TOKEN), token)]

\* the configured value, else GIT_USER / GIT_TOKEN, else GITHUB_USER / GITHUB_TOKEN
ResolveCredentialsOptional(user, token, env) ==
    [user |-> FirstNonEmpty(user, FirstNonEmpty(env.GIT_USER, env.GITHUB_USER)),
     token |-> FirstNonEmpty(token, FirstNonEmpty(env.GIT_TOKEN, env.GITHUB_TOKEN))]

ResolveCredentials(user, token, env) ==
    LET r == ResolveCredentialsOptional(user, token, env)
    IN IF r.user = "" \/ r.token = ""
       THEN [user |-> "", token |-> "", err |-> "git credentials required"]
       ELSE [user |-> r.user, token |-> r.token, err |-> NoErr]

\* ------------------------------------------------------------------------
\* Registry
\* ------------------------------------------------------------------------
NameIndex(claims, name) ==
    IF \E i \in 1..Len(claims) : claims[i].Name = name
    THEN CHOOSE i \in 1..Len(claims) :
            /\ claims[i].Name = name
            /\ \A j \in 1..(i - 1) : claims[j].Name # name
    ELSE 0

\* variant: the entry is appended whether or not the name is present
AddEntryAppend(claims, entry) == Append(claims, entry)

\* replace the first entry of that name in place, else append
AddEntry(claims, entry) ==
    LET i == NameIndex(claims, entry.Name)
    IN IF i # 0 THEN [claims EXCEPT ![i] = entry] ELSE Append(claims, entry)

RemoveEntry(claims, name) ==
    LET i == NameIndex(claims, name)
    IN IF i # 0
       THEN [err |-> NoErr,
             claims |-> SubSeq(claims, 1, i - 1) \o SubSeq(claims, i + 1, Len(claims))]
       ELSE [err |-> "not found in registry", claims |-> claims]

ClaimEntry(name, template, createdBy, repository, path, createdAt) ==
    [Name |-> name, Template |-> template, CreatedAt |-> createdAt,
     CreatedBy |-> createdBy, Source |-> "cli", Repository |-> repository,
     Path |-> path, Status |-> "active"]

\* variant: results carrying an error are not skipped
RECURSIVE UpsertResultsWithFailed(_, _, _, _, _)
UpsertResultsWithFailed(claims, results, i, createdBy, repoName) ==
    IF i > Len(results) THEN claims
    ELSE UpsertResultsWithFailed(
            AddEntry(claims, ClaimEntry(results[i].ResourceName, results[i].TemplateName,
                                        createdBy, repoName, results[i].OutputPath, "now")),
            results, i + 1, createdBy, repoName)

\* the loop of updateRegistryForRender from result i on
RECURSIVE UpsertResults(_, _, _, _, _)
UpsertResults(claims, results, i, createdBy, repoName) ==
    IF i > Len(results) THEN claims
    ELSE IF results[i].Error \/ results[i].OutputPath = NoPath
    THEN UpsertResults(claims, results, i + 1, createdBy, repoName)
    ELSE UpsertResults(
            AddEntry(claims, ClaimEntry(results[i].ResourceName, results[i].TemplateName,
                                        createdBy, repoName, results[i].OutputPath, "now")),
            results, i + 1, createdBy, repoName)

\* an error value: the errno of the os call that failed and whether the
\* error was wrapped by fmt.Errorf("...: %w", err) on its way up
NoError == [nil |-> TRUE, errno |-> "", wrapped |-> FALSE]
PathError(errno) == [nil |-> FALSE, errno |-> errno, wrapped |-> FALSE]
Errorf(err) == [err EXCEPT !.wrapped = TRUE]

\* os.IsNotExist looks at the error it is handed (a *PathError, *LinkError or
\* *SyscallError), never through the wrapper fmt.Errorf builds
IsNotExist(err) == ~err.nil /\ ~err.wrapped /\ err.errno = "ENOENT"

NewRegistry == <<>>

\* registry.Load: read and parse the file; readable: os.ReadFile and
\* yaml.Unmarshal succeed on an existing file
Load(reg, readable) ==
    IF ~reg.exists THEN [err |-> Errorf(PathError("ENOENT")), claims |-> NewRegistry]
    ELSE IF ~readable THEN [err |-> Errorf(PathError("EIO")), claims |-> NewRegistry]
    ELSE [err |-> NoError, claims |-> reg.claims]

\* reg: [exists, claims], the registry file of the repository that contains the
\* output directory; inRepo: findRepoRoot succeeds; io: "ok", "loadfail"
\* (unreadable or unparsable file), "savefail" (MkdirAll or Save fails)
updateRegistryForRender(results, config, reg, inRepo, io) ==
    IF ~inRepo THEN reg
    ELSE LET l == Load(reg, io # "loadfail")
         IN IF ~l.err.nil /\ ~IsNotExist(l.err) THEN reg
            ELSE LET loaded == IF l.err.nil THEN l.claims ELSE NewRegistry
                     repoName == IF ~config.GitConfig.Nil /\ config.GitConfig.RepoURL # ""
                                 THEN config.GitConfig.RepoURL ELSE "origin-slug"
                     createdBy == IF ~config.GitConfig.Nil /\ config.GitConfig.User # ""
                                  THEN config.GitConfig.User ELSE "cli"
                     updated == \E i \in 1..Len(results) :
                                    ~results[i].Error /\ results[i].OutputPath # NoPath
                 IN IF updated /\ io # "savefail"
                    THEN [exists |-> TRUE,
                          claims |-> UpsertResults(loaded, results, 1, createdBy, repoName)]
                    ELSE reg

\* ------------------------------------------------------------------------
\* Git repository (what the publisher needs of go-git)
\* ------------------------------------------------------------------------
\* a repository: its branch tips, the checked-out branch, the index and the
\* commits made by this run
Ref(name, commit) == [name |-> name, commit |-> commit]

NoRepo == [exists |-> FALSE, branches |-> {}, cur |-> "", staged |-> {}, commits |-> <<>>]

\* the repository before the run: main is checked out, dev is an older branch
InitialRepo ==
    [exists |-> TRUE, branches |-> {Ref("main", 1), Ref("dev", 0)}, cur |-> "main",
     staged |-> {}, commits |-> <<>>]

HasBranch(r, name) == \E b \in r.branches : b.name = name
TipOf(r, name) == (CHOOSE b \in r.branches : b.name = name).commit
HeadCommit(r) == TipOf(r, r.cur)

SetReference(r, name, commit) ==
    [r EXCEPT !.branches = {b \in @ : b.name # name} \cup {Ref(name, commit)}]

\* variant: the checkout resets the worktree and drops the untracked files
CheckoutDiscard(untracked) == {}

\* worktree.Checkout with Keep: the untracked files of the worktree stay
CheckoutKeep(untracked) == untracked

\* CreateBranch: point refs/heads/name at HEAD, then check it out keeping the
\* worktree; lib = "ok", "fail" (nothing done) or "failcheckout" (ref set)
CreateBranch(r, name, lib) ==
    IF lib = "fail" THEN [err |-> "creating branch", repo |-> r]
    ELSE LET set == SetReference(r, name, HeadCommit(r))
         IN IF lib = "failcheckout"
            THEN [err |-> "checking out branch", repo |-> set]
            ELSE [err |-> NoErr, repo |-> [set EXCEPT !.cur = name]]

CheckoutBranch(r, name, lib) ==
    IF ~HasBranch(r, name) \/ lib # "ok"
    THEN [err |-> "checking out branch", repo |-> r]
    ELSE [err |-> NoErr, repo |-> [r EXCEPT !.cur = name]]

\* AddFiles: every path must exist under the repository path, then AddGlob;
\* present: the paths found on disk; lib: does AddGlob succeed
RECURSIVE AddFiles(_, _, _, _, _)
AddFiles(r, paths, present, lib, origin) ==
    IF paths = <<>> THEN [err |-> NoErr, repo |-> r]
    ELSE IF Head(paths) \notin present THEN [err |-> "file not found", repo |-> r]
    ELSE IF ~lib THEN [err |-> "staging", repo |-> r]
    ELSE AddFiles([r EXCEPT !.staged = @ \cup {[path |-> Head(paths), origin |-> origin]}],
                  Tail(paths), present, lib, origin)

NextCommitId(r) == 2 + Len(r.commits)

Commit(r, message, authorName, lib) ==
    IF ~lib THEN [err |-> "committing", repo |-> r]
    ELSE LET id == NextCommitId(r)
             c == [id |-> id, branch |-> r.cur, message |-> message,
                   author |-> IF authorName = "" THEN "claims-cli" ELSE authorName,
                   files |-> r.staged]
         IN [err |-> NoErr,
             repo |-> [SetReference(r, r.cur, id) EXCEPT
                          !.staged = {}, !.commits = Append(@, c)]]

\* paths of the results to stage, in result order
RECURSIVE CollectPaths(_)
CollectPaths(rs) ==
    IF rs = <<>> THEN <<>>
    ELSE (IF Head(rs).OutputPath # NoPath /\ ~Head(rs).Error
          THEN <<Head(rs).OutputPath>> ELSE <<>>) \o CollectPaths(Tail(rs))

RECURSIVE SuccessNames(_)
SuccessNames(rs) ==
    IF rs = <<>> THEN <<>>
    ELSE (IF Head(rs).Error THEN <<>> ELSE <<Head(rs).TemplateName>>)
         \o SuccessNames(Tail(rs))

CommitMessage(config, rs) ==
    IF config.GitConfig.Message # "" THEN <<config.GitConfig.Message>>
    ELSE <<"Rendered claims: ">> \o SuccessNames(rs)

RegistryPath == <<"claims", "registry.yaml">>

\* ------------------------------------------------------------------------
\* State of one run of `claims render`
\* ------------------------------------------------------------------------
VARIABLES
    pc,            \* position of the run in runNonInteractive / runInteractiveRender
    cfg,           \* RenderConfig: the mode flags, whether the output directory lies
                   \* in a repository, and the publish flags once the run reads them
    tparams,       \* templateParams (non-interactive) / allParams (interactive)
    results,       \* []RenderResult
    calls,         \* template names of the render requests sent so far
    outputConfig,  \* OutputConfig handed to WriteResults
    files,         \* files of the output directory
    dirExists,     \* does the output directory exist
    registry,      \* claims/registry.yaml of the repository holding the output directory
    repos,         \* [local, clone]: the local repository and the ephemeral clone
    cloneDir,      \* "none", "present" or "removed": the temporary clone directory
    g,             \* the *GitOps handle of executeGitOperations
    remote,        \* branch tips pushed to the remote by this run
    prs,           \* pull requests opened by this run
    glog,          \* publisher steps attempted so far, with their outcome
    edits,         \* edit iterations of the review loop so far
    status         \* final status of the process

vars == <<pc, cfg, tparams, results, calls, outputConfig, files, dirExists, registry,
          repos, cloneDir, g, remote, prs, glog, edits, status>>

GitConfig(commit, push, createBranch, branch, repoURL, user, token) ==
    [Nil |-> FALSE, Commit |-> commit, Push |-> push, CreateBranch |-> createBranch,
     Message |-> "", Branch |-> branch, RepoURL |-> repoURL, User |-> user,
     Token |-> token]

NilGitConfig ==
    [Nil |-> TRUE, Commit |-> FALSE, Push |-> FALSE, CreateBranch |-> FALSE,
     Message |-> "", Branch |-> "", RepoURL |-> "", User |-> "", Token |-> ""]

EmptyEnv == [GIT_USER |-> "", GITHUB_USER |-> "", GIT_TOKEN |-> "", GITHUB_TOKEN |-> ""]
CIEnv == [GIT_USER |-> "ci-bot", GITHUB_USER |-> "", GIT_TOKEN |-> "", GITHUB_TOKEN |-> "ghtok"]

PublishCase(git, env, pr) == [git |-> git, env |-> env, pr |-> pr]

\* the publish configurations (git flags, environment, --create-pr) explored
PublishCases ==
    { PublishCase(NilGitConfig, EmptyEnv, FALSE),
      PublishCase(GitConfig(TRUE, FALSE, FALSE, "", "", "", ""), EmptyEnv, FALSE),
      PublishCase(GitConfig(FALSE, TRUE, TRUE, "feat", "", "u", "t"), EmptyEnv, TRUE),
      PublishCase(GitConfig(TRUE, TRUE, FALSE, "dev", "url", "", ""), CIEnv, FALSE),
      PublishCase(GitConfig(TRUE, TRUE, FALSE, "", "", "u", ""), EmptyEnv, FALSE),
      PublishCase(GitConfig(TRUE, FALSE, TRUE, "dev", "", "", ""), EmptyEnv, FALSE),
      PublishCase(GitConfig(TRUE, FALSE, FALSE, "feat", "url", "", ""), EmptyEnv, FALSE),
      PublishCase(GitConfig(TRUE, FALSE, FALSE, "", "url", "", ""), EmptyEnv, FALSE) }

NoOutputConfig ==
    [Directory |-> "", FilenamePattern |-> <<>>, SingleFile |-> FALSE, DryRun |-> FALSE]

OldEntry(name) == ClaimEntry(name, "ta", "someone", "origin-slug", <<"old.yaml">>, "before")
AbsentRegistry == [exists |-> FALSE, claims |-> <<>>]
ExistingRegistry == [exists |-> TRUE, claims |-> <<OldEntry("legacy"), OldEntry("n1")>>]

NoHandle == [target |-> "none", auth |-> FALSE, user |-> "", token |-> ""]
Running == [state |-> "running", err |-> NoErr]

\* the publish flags (GitConfig, PRConfig) and the credential environment are
\* inputs of the first step that consults them; until then cfg holds none
Init ==
    /\ pc = "start"
    /\ \E interactive \in BOOLEAN, dryRun \in BOOLEAN, inRepo \in BOOLEAN :
          cfg = [Interactive |-> interactive, DryRun |-> dryRun, InRepo |-> inRepo,
                 GitConfig |-> NilGitConfig, Env |-> EmptyEnv, PRCreate |-> FALSE]
    /\ tparams = <<>>
    /\ results = <<>>
    /\ calls = <<>>
    /\ outputConfig = NoOutputConfig
    /\ files = {}
    /\ dirExists = FALSE
    /\ registry \in (IF cfg.InRepo THEN {AbsentRegistry, ExistingRegistry} ELSE {AbsentRegistry})
    /\ repos = [local |-> IF cfg.InRepo THEN InitialRepo ELSE NoRepo, clone |-> NoRepo]
    /\ cloneDir = "none"
    /\ g = NoHandle
    /\ remote = {}
    /\ prs = <<>>
    /\ glog = <<>>
    /\ edits = 0
    /\ status = Running

WithPublish(config, pub) ==
    [config EXCEPT !.GitConfig = pub.git, !.Env = pub.env, !.PRCreate = pub.pr]

Done(state, err) ==
    /\ pc' = "done"
    /\ status' = [state |-> state, err |-> err]

SeqsUpTo(S, n) == UNION {[1..k -> S] : k \in 0..n}

\* ------------------------------------------------------------------------
\* runNonInteractive: resolve, validate, render
\* ------------------------------------------------------------------------
FileEntries == {TemplateParams(n, p) : n \in TemplateNames, p \in ParamMaps}

\* --params-file (absent, unparsable, or a list of entries), --templates and
\* the inline --param pairs (parsable or not)
NIResolve ==
    /\ pc = "start"
    /\ ~cfg.Interactive
    /\ \E hasFile \in BOOLEAN, fileOK \in BOOLEAN, inlineOK \in BOOLEAN,
          entries \in SeqsUpTo(FileEntries, MaxTemplates),
          names \in SeqsUpTo(TemplateNames, MaxTemplates), inline \in ParamMaps :
          /\ Len(entries) + Len(names) <= MaxTemplates
          /\ ~hasFile => (entries = <<>> /\ fileOK)
          /\ IF ~hasFile /\ Len(names) = 0
             THEN Done("error", "non-interactive mode requires --params-file or --templates")
                  /\ UNCHANGED tparams
             ELSE IF ~fileOK \/ ~inlineOK
             THEN Done("error", "parsing parameters") /\ UNCHANGED tparams
             ELSE /\ tparams' = ResolveParams(entries, names, inline)
                  /\ pc' = "validate"
                  /\ UNCHANGED status
    /\ UNCHANGED <<cfg, results, calls, outputConfig, files, dirExists, registry, repos,
                   cloneDir, g, remote, prs, glog, edits>>

\* variant: the names are not compared with the catalog
NamesInCatalogUnchecked(names) == TRUE

\* every name of a list is a template of the fetched catalog
NamesInCatalog(names) == \A i \in 1..Len(names) : names[i] \in Catalog

AllInCatalog(tps) == NamesInCatalog([i \in 1..Len(tps) |-> tps[i].Name])

\* FetchTemplates, then every entry's name must be in the catalog
NIValidate ==
    /\ pc = "validate"
    /\ \E fetchOK \in BOOLEAN :
          IF ~fetchOK THEN Done("error", "fetching templates")
          ELSE IF ~AllInCatalog(tparams) THEN Done("error", "template not found")
          ELSE /\ pc' = IF tparams = <<>> THEN "write" ELSE "render"
               /\ UNCHANGED status
    /\ UNCHANGED <<cfg, tparams, results, calls, outputConfig, files, dirExists, registry,
                   repos, cloneDir, g, remote, prs, glog, edits>>

\* rendered texts the render service returns in a run
RunContents == {<<"a">>}

\* the result appended by one iteration of the render loop; ok: the render
\* call succeeded and returned content
RenderOutcome(tp, ok, content, interactive) ==
    IF ok
    THEN RenderResult(tp.Name, ResourceNameOf(tp.Parameters), content, tp.Parameters, FALSE)
    ELSE RenderResult(tp.Name, "", <<>>, IF interactive THEN tp.Parameters ELSE EmptyMap, TRUE)

\* a render request sent to the render service and whether it succeeded
Call(name, ok) == [name |-> name, ok |-> ok]

\* variant: a failed render ends the loop and the run
AfterRenderAbort(i, n, ok, interactive) ==
    IF ~ok THEN "done"
    ELSE IF i < n THEN "render" ELSE IF interactive THEN "review" ELSE "write"

\* where the run goes after iteration i of n of the render loop: on to the
\* next template whether or not the render succeeded (ok)
AfterRender(i, n, ok, interactive) ==
    IF i < n THEN "render" ELSE IF interactive THEN "review" ELSE "write"

\* one iteration of the render loop (runNonInteractive / renderAllTemplates)
RenderNext ==
    /\ pc = "render"
    /\ Len(results) < Len(tparams)
    /\ LET i == Len(results) + 1
       IN \E ok \in BOOLEAN, content \in RunContents :
             /\ results' = Append(results, RenderOutcome(tparams[i], ok, content,
                                                         cfg.Interactive))
             /\ calls' = Append(calls, Call(tparams[i].Name, ok))
             /\ pc' = AfterRender(i, Len(tparams), ok, cfg.Interactive)
    /\ UNCHANGED <<cfg, tparams, outputConfig, files, dirExists, registry, repos,
                   cloneDir, g, remote, prs, glog, edits, status>>

\* ------------------------------------------------------------------------
\* runNonInteractive: write, registry
\* ------------------------------------------------------------------------
OutputConfig(pattern, single, dryRun) ==
    [Directory |-> "out", FilenamePattern |-> pattern, SingleFile |-> single,
     DryRun |-> dryRun]

\* final status of runNonInteractive once writing and publishing are over
NIFinalStatus(rs) ==
    IF HasErrors(rs) THEN [state |-> "error", err |-> "some templates failed to render"]
    ELSE [state |-> "ok", err |-> NoErr]

\* variant: the registry update and the publisher are not guarded by dry-run
NIPublishesAlways(config) == TRUE

\* runNonInteractive updates the registry and runs the publisher unless dry-run
NIPublishes(config) == ~config.DryRun

\* WriteResults with the output flags, then the registry and the publisher
\* (whose flags are read here) unless dry-run
NIWrite ==
    /\ pc = "write"
    /\ ~cfg.Interactive
    /\ \E pattern \in Patterns, single \in BOOLEAN, mk \in BOOLEAN, io \in 0..MaxTemplates,
          pub \in PublishCases :
          LET oc == OutputConfig(pattern, single, cfg.DryRun)
              w == WriteResults(results, oc, files, dirExists, mk, io)
          IN /\ outputConfig' = oc
             /\ cfg' = WithPublish(cfg, pub)
             /\ results' = w.results
             /\ files' = w.files
             /\ dirExists' = w.dir
             /\ IF w.err # NoErr THEN Done("error", w.err)
                ELSE IF NIPublishes(cfg)
                THEN pc' = "registry" /\ UNCHANGED status
                ELSE pc' = "done" /\ status' = NIFinalStatus(w.results)
    /\ UNCHANGED <<tparams, calls, registry, repos, cloneDir, g, remote, prs, glog, edits>>

NIRegistry ==
    /\ pc = "registry"
    /\ \E io \in {"ok", "loadfail", "savefail"} :
          registry' = updateRegistryForRender(results, cfg, registry, cfg.InRepo, io)
    /\ pc' = "git"
    /\ UNCHANGED <<cfg, tparams, results, calls, outputConfig, files, dirExists, repos,
                   cloneDir, g, remote, prs, glog, edits, status>>

\* ------------------------------------------------------------------------
\* executeGitOperations
\* ------------------------------------------------------------------------
Logged(step, ok) == Append(glog, [step |-> step, ok |-> ok])

\* variant: an error of the publisher is dropped by its caller
AfterGitStatusSwallow(err) ==
    IF cfg.Interactive THEN [state |-> "ok", err |-> NoErr]
    ELSE IF HasErrors(results)
    THEN [state |-> "error", err |-> "some templates failed to render"]
    ELSE [state |-> "ok", err |-> NoErr]

\* status of the run once executeGitOperations has returned err
AfterGitStatus(err) ==
    IF err # NoErr THEN [state |-> "error", err |-> err]
    ELSE IF cfg.Interactive THEN [state |-> "ok", err |-> NoErr]
    ELSE NIFinalStatus(results)

\* variant: the clone directory is left behind when the publisher returns
ReturnFromGitNoCleanup(err, newRepos) ==
    /\ repos' = newRepos
    /\ cloneDir' = cloneDir
    /\ pc' = "done"
    /\ status' = AfterGitStatus(err)

\* executeGitOperations returns err with the repositories as newRepos: the
\* deferred g.Cleanup() removes the clone directory, then the caller finishes
ReturnFromGit(err, newRepos) ==
    /\ repos' = IF cloneDir = "present" THEN [newRepos EXCEPT !.clone = NoRepo]
                ELSE newRepos
    /\ cloneDir' = IF cloneDir = "present" THEN "removed" ELSE cloneDir
    /\ pc' = "done"
    /\ status' = AfterGitStatus(err)

Target == repos[g.target]

\* variant: the result of the commit is not looked at before pushing
GitNextPushAnyway(step, err, config) ==
    IF step = "commit" THEN (IF config.GitConfig.Push THEN "push" ELSE "return")
    ELSE IF err # NoErr THEN "return"
    ELSE IF step = "credentials" THEN "acquire"
    ELSE IF step = "acquire" THEN "branch"
    ELSE IF step = "branch" THEN "stage"
    ELSE IF step = "stage" THEN "commit"
    ELSE IF step = "push" THEN (IF config.PRCreate THEN "pr" ELSE "return")
    ELSE "return"

\* the step executeGitOperations runs after `step` ended with err; "return":
\* it returns to its caller
GitNext(step, err, config) ==
    IF err # NoErr THEN "return"
    ELSE IF step = "credentials" THEN "acquire"
    ELSE IF step = "acquire" THEN "branch"
    ELSE IF step = "branch" THEN "stage"
    ELSE IF step = "stage" THEN "commit"
    ELSE IF step = "commit" THEN (IF config.GitConfig.Push THEN "push" ELSE "return")
    ELSE IF step = "push" THEN (IF config.PRCreate THEN "pr" ELSE "return")
    ELSE "return"

\* entry guard and credential resolution
GitEnter ==
    /\ pc = "git"
    /\ LET gc == cfg.GitConfig
           opt == ResolveCredentialsOptional(gc.User, gc.Token, cfg.Env)
           cr == IF gc.Push THEN ResolveCredentials(gc.User, gc.Token, cfg.Env)
                 ELSE [user |-> opt.user, token |-> opt.token, err |-> NoErr]
       IN IF gc.Nil \/ (~gc.Commit /\ ~gc.Push)
          THEN ReturnFromGit(NoErr, repos) /\ UNCHANGED <<g, glog>>
          ELSE IF GitNext("credentials", cr.err, cfg) = "return"
          THEN ReturnFromGit(cr.err, repos) /\ glog' = Logged("credentials", FALSE)
               /\ UNCHANGED g
          ELSE /\ g' = [target |-> "none", auth |-> cr.user # "" /\ cr.token # "",
                        user |-> cr.user, token |-> cr.token]
               /\ pc' = "acquire"
               /\ UNCHANGED <<repos, cloneDir, status, glog>>
    /\ UNCHANGED <<cfg, tparams, results, calls, outputConfig, files, dirExists, registry,
                   remote, prs, edits>>

\* clone to a temporary directory (Clone removes it again when it fails), or
\* open the repository of the output directory
GitAcquire ==
    /\ pc = "acquire"
    /\ \E lib \in BOOLEAN :
          LET clone == cfg.GitConfig.RepoURL # ""
              err == IF clone THEN (IF lib THEN NoErr ELSE "cloning repository")
                     ELSE IF ~cfg.InRepo THEN "output directory is not in a git repository"
                     ELSE IF ~lib THEN "opening repository"
                     ELSE NoErr
          IN /\ glog' = Logged("acquire", err = NoErr)
             /\ IF GitNext("acquire", err, cfg) = "return"
                THEN /\ cloneDir' = IF clone THEN "removed" ELSE cloneDir
                     /\ repos' = repos
                     /\ pc' = "done"
                     /\ status' = AfterGitStatus(err)
                     /\ UNCHANGED g
                ELSE /\ cloneDir' = IF clone THEN "present" ELSE cloneDir
                     /\ repos' = IF clone THEN [repos EXCEPT !.clone = InitialRepo] ELSE repos
                     /\ g' = [g EXCEPT !.target = IF clone THEN "clone" ELSE "local"]
                     /\ pc' = "branch"
                     /\ UNCHANGED status
    /\ UNCHANGED <<cfg, tparams, results, calls, outputConfig, files, dirExists, registry,
                   remote, prs, edits>>

\* create and check out the branch, check out an existing one, or stay
GitBranch ==
    /\ pc = "branch"
    /\ LET gc == cfg.GitConfig
       IN IF gc.Branch = ""
          THEN pc' = "stage" /\ UNCHANGED <<repos, cloneDir, status, glog, files>>
          ELSE \E lib \in {"ok", "fail", "failcheckout"} :
                 LET b == IF gc.CreateBranch THEN CreateBranch(Target, gc.Branch, lib)
                          ELSE CheckoutBranch(Target, gc.Branch, lib)
                     now == [repos EXCEPT ![g.target] = b.repo]
                 IN /\ glog' = Logged("branch", b.err = NoErr)
                    /\ files' = IF b.err = NoErr /\ g.target = "local"
                                THEN CheckoutKeep(files) ELSE files
                    /\ IF GitNext("branch", b.err, cfg) = "return"
                       THEN ReturnFromGit(b.err, now)
                       ELSE /\ repos' = now
                            /\ pc' = "stage"
                            /\ UNCHANGED <<cloneDir, status>>
    /\ UNCHANGED <<cfg, tparams, results, calls, outputConfig, dirExists, registry,
                   g, remote, prs, edits>>

\* names of the files of a directory
FileNames(fs) == {f.name : f \in fs}

\* variant: an empty list of output paths is not refused
NothingToCommitNever(paths) == FALSE

\* no successful result has an output path
NothingToCommit(paths) == Len(paths) = 0

\* collect the output paths, add the registry file if it exists, stage;
\* in the clone workflow the written files and a registry file may or may
\* not be found under the clone
GitStage ==
    /\ pc = "stage"
    /\ LET paths == CollectPaths(results)
           local == g.target = "local"
       IN IF NothingToCommit(paths)
          THEN ReturnFromGit("no files to commit", repos) /\ glog' = Logged("stage", FALSE)
          ELSE \E lib \in BOOLEAN,
                  inClone \in (IF local THEN {TRUE} ELSE BOOLEAN),
                  cloneReg \in (IF local THEN {TRUE} ELSE BOOLEAN) :
                 LET hasReg == IF local THEN registry.exists ELSE cloneReg
                     all == IF hasReg THEN Append(paths, RegistryPath) ELSE paths
                     present == IF local \/ inClone
                                THEN FileNames(files) \cup {RegistryPath}
                                ELSE {RegistryPath}
                     a == AddFiles(Target, all, present, lib,
                                   IF local THEN "written" ELSE "checkout")
                     now == [repos EXCEPT ![g.target] = a.repo]
                 IN /\ glog' = Logged("stage", a.err = NoErr)
                    /\ IF GitNext("stage", a.err, cfg) = "return"
                       THEN ReturnFromGit(a.err, now)
                       ELSE /\ repos' = now
                            /\ pc' = "commit"
                            /\ UNCHANGED <<cloneDir, status>>
    /\ UNCHANGED <<cfg, tparams, results, calls, outputConfig, files, dirExists, registry,
                   g, remote, prs, edits>>

GitCommit ==
    /\ pc = "commit"
    /\ \E lib \in BOOLEAN :
          LET c == Commit(Target, CommitMessage(cfg, results), g.user, lib)
              now == [repos EXCEPT ![g.target] = c.repo]
          IN /\ glog' = Logged("commit", c.err = NoErr)
             /\ IF GitNext("commit", c.err, cfg) = "return"
                THEN ReturnFromGit(c.err, now)
                ELSE repos' = now /\ pc' = "push" /\ UNCHANGED <<cloneDir, status>>
    /\ UNCHANGED <<cfg, tparams, results, calls, outputConfig, files, dirExists, registry,
                   g, remote, prs, edits>>

\* push the configured (or current) branch; lib = "ok", "uptodate" or "fail";
\* headOK: GetCurrentBranch succeeds
GitPush ==
    /\ pc = "push"
    /\ \E lib \in {"ok", "uptodate", "fail"},
          headOK \in (IF cfg.GitConfig.Branch # "" THEN {TRUE} ELSE BOOLEAN) :
          LET branch == IF cfg.GitConfig.Branch # "" THEN cfg.GitConfig.Branch
                        ELSE Target.cur
              err == IF ~headOK THEN "getting current branch"
                     ELSE IF ~g.auth \/ lib = "fail" THEN "pushing"
                     ELSE NoErr
          IN /\ glog' = Logged("push", err = NoErr)
             /\ remote' = IF err # NoErr \/ lib = "uptodate" THEN remote
                          ELSE {b \in remote : b.name # branch}
                               \cup {Ref(branch, TipOf(Target, branch))}
             /\ IF GitNext("push", err, cfg) = "return"
                THEN ReturnFromGit(err, repos)
                ELSE pc' = "pr" /\ UNCHANGED <<repos, cloneDir, status>>
    /\ UNCHANGED <<cfg, tparams, results, calls, outputConfig, files, dirExists, registry,
                   g, prs, edits>>

\* executePRCreation: gh must be authenticated, then gh pr create
GitPR ==
    /\ pc = "pr"
    /\ \E gh \in {"ok", "noauth", "fail"} :
          LET err == IF gh = "noauth" THEN "gh CLI not authenticated"
                     ELSE IF gh = "fail" THEN "gh pr create failed"
                     ELSE NoErr
          IN /\ glog' = Logged("pr", err = NoErr)
             /\ prs' = IF err # NoErr THEN prs
                       ELSE Append(prs, [head |-> cfg.GitConfig.Branch,
                                         title |-> <<"Rendered claims: ">>
                                                     \o SuccessNames(results)])
             /\ ReturnFromGit(err, repos)
    /\ UNCHANGED <<cfg, tparams, results, calls, outputConfig, files, dirExists, registry,
                   g, remote, edits>>

\* ------------------------------------------------------------------------
\* runInteractiveRender
\* ------------------------------------------------------------------------
Distinct(sq) == \A i, j \in 1..Len(sq) : i # j => sq[i] # sq[j]

\* fetch the catalog, take --templates (validated) or the multi-select, collect
\* the parameters of every selected template, confirm
IStart ==
    /\ pc = "start"
    /\ cfg.Interactive
    /\ \E fetchOK \in BOOLEAN, fromFlag \in BOOLEAN,
          chosen \in SeqsUpTo(TemplateNames, MaxTemplates) \ {<<>>},
          prompt \in {"yes", "no", "error"} :
          /\ ~fromFlag => (Distinct(chosen) /\ \A i \in 1..Len(chosen) : chosen[i] \in Catalog)
          /\ IF ~fetchOK THEN Done("error", "failed to fetch templates") /\ UNCHANGED tparams
             ELSE IF ~NamesInCatalog(chosen)
             THEN Done("error", "template not found") /\ UNCHANGED tparams
             ELSE IF prompt = "error" THEN Done("error", "prompt") /\ UNCHANGED tparams
             ELSE IF prompt = "no" THEN Done("ok", NoErr) /\ UNCHANGED tparams
             ELSE /\ \E ps \in [1..Len(chosen) -> ParamMaps] :
                       tparams' = [i \in 1..Len(chosen) |-> TemplateParams(chosen[i], ps[i])]
                  /\ pc' = "render"
                  /\ UNCHANGED status
    /\ UNCHANGED <<cfg, results, calls, outputConfig, files, dirExists, registry, repos,
                   cloneDir, g, remote, prs, glog, edits>>

\* variant: the action prompt is shown whatever the results are
ReviewPromptsAlways(rs) == TRUE

\* ReviewResults shows its action prompt only if some render succeeded
ReviewPrompts(rs) == SuccessCount(rs) > 0

\* ReviewResults with no successful render: no prompt, the action is cancel
ReviewNoSuccess ==
    /\ pc = "review"
    /\ ~ReviewPrompts(results)
    /\ Done("ok", NoErr)
    /\ UNCHANGED <<cfg, tparams, results, calls, outputConfig, files, dirExists, registry,
                   repos, cloneDir, g, remote, prs, glog, edits>>

\* the user picks "Continue to save"
ReviewContinue ==
    /\ pc = "review"
    /\ ReviewPrompts(results)
    /\ pc' = "output"
    /\ UNCHANGED <<cfg, tparams, results, calls, outputConfig, files, dirExists, registry,
                   repos, cloneDir, g, remote, prs, glog, edits, status>>

\* the user picks "Cancel", or a prompt of the review step fails
ReviewCancel ==
    /\ pc = "review"
    /\ ReviewPrompts(results)
    /\ \E promptOK \in BOOLEAN :
          IF promptOK THEN Done("ok", NoErr) ELSE Done("error", "review")
    /\ UNCHANGED <<cfg, tparams, results, calls, outputConfig, files, dirExists, registry,
                   repos, cloneDir, g, remote, prs, glog, edits>>

\* variant: every template of the batch is offered
EditOptionsAll(rs) == 1..Len(rs)

\* indices selectTemplateToEdit offers
EditOptions(rs) == {i \in 1..Len(rs) : ~rs[i].Error}

\* the result at editIndex after the re-render
EditOutcome(r, ok, content, newParams) ==
    IF ~ok THEN [r EXCEPT !.Error = TRUE]
    ELSE [r EXCEPT !.Content = content, !.Params = newParams, !.Error = FALSE,
                   !.ResourceName = IF HasKey(newParams, "name")
                                    THEN Sprintv(Lookup(newParams, "name")) ELSE @]

\* variant: a failed re-render ends the review loop
AfterEditLeaveOnFailure(ok) == IF ok THEN "review" ELSE "done"

\* where the run goes after an edit whose re-render succeeded (ok) or not:
\* `continue`, back to ReviewResults
AfterEdit(ok) == "review"

\* the user picks "Edit": choose a template, re-collect its parameters,
\* re-render it and replace its result in place
ReviewEdit ==
    /\ pc = "review"
    /\ ReviewPrompts(results)
    /\ edits < MaxEdits
    /\ edits' = edits + 1
    /\ \E idx \in EditOptions(results), collected \in BOOLEAN, ok \in BOOLEAN,
          content \in RunContents, newParams \in ParamMaps :
          IF ~collected THEN UNCHANGED <<results, calls, pc>>
          ELSE /\ results' = [results EXCEPT ![idx] = EditOutcome(@, ok, content, newParams)]
               /\ calls' = Append(calls, Call(results[idx].TemplateName, ok))
               /\ pc' = AfterEdit(ok)
    /\ UNCHANGED <<cfg, tparams, outputConfig, files, dirExists, registry, repos,
                   cloneDir, g, remote, prs, glog, status>>

\* GitConfig built by runGitDetailsForm: commit always, push when a PR is
\* created or "Commit and push" is picked, a new branch for a PR or "new branch"
FormGitConfig(createPR, gitAction, branchName) ==
    [Nil |-> FALSE, Commit |-> TRUE, Push |-> createPR \/ gitAction = "push",
     CreateBranch |-> createPR \/ gitAction = "branch", Message |-> "",
     Branch |-> IF createPR \/ gitAction = "branch" THEN branchName ELSE "",
     RepoURL |-> "", User |-> "", Token |-> ""]

\* what runOutputFormWithValidation can return: the pattern is asked for
\* separate files only, single-file mode only with more than one result
FormChoices(resultCount) ==
    (IF resultCount > 1 THEN {OutputConfig(PatDefault, TRUE, FALSE)} ELSE {})
      \cup {OutputConfig(p, FALSE, FALSE) : p \in Patterns}

\* output configuration: the flags if any output flag was given, else the
\* destination choice and the output form (with the git and PR forms); the
\* publish flags stay in force unless the git form replaces them
IOutput ==
    /\ pc = "output"
    /\ IF SuccessCount(results) = 0
       THEN Done("error", "no successful renders to save") /\ UNCHANGED <<cfg, outputConfig>>
       ELSE \E dirFlag \in BOOLEAN, single \in BOOLEAN, pattern \in Patterns,
               pub \in PublishCases :
              IF cfg.DryRun \/ dirFlag \/ single \/ pattern # PatDefault
              THEN /\ outputConfig' = OutputConfig(pattern, single, cfg.DryRun)
                   /\ cfg' = WithPublish(cfg, pub)
                   /\ pc' = "write"
                   /\ UNCHANGED status
              ELSE \E dest \in {"local", "git", "pr"}, gitAction \in {"commit", "branch", "push"},
                      form \in {"ok", "cancel", "error"},
                      formConfig \in FormChoices(SuccessCount(results)) :
                   LET useGit == dest \in {"git", "pr"}
                       flags == WithPublish(cfg, pub)
                   IN   IF form = "error"
                        THEN Done("error", "output configuration")
                             /\ UNCHANGED <<cfg, outputConfig>>
                        ELSE IF form = "cancel" \/ (useGit /\ ~cfg.InRepo)
                        THEN Done("ok", NoErr) /\ UNCHANGED <<cfg, outputConfig>>
                        ELSE /\ outputConfig' = formConfig
                             /\ cfg' = IF useGit
                                       THEN [flags EXCEPT
                                               !.GitConfig = FormGitConfig(dest = "pr", gitAction, "feat"),
                                               !.PRCreate = IF dest = "pr" THEN TRUE ELSE @]
                                       ELSE flags
                             /\ pc' = "write"
                             /\ UNCHANGED status
    /\ UNCHANGED <<tparams, results, calls, files, dirExists, registry, repos, cloneDir,
                   g, remote, prs, glog, edits>>

\* runInteractiveRender runs the publisher unless dry-run or no git configuration
IPublishes(config, oc) == ~oc.DryRun /\ ~config.GitConfig.Nil

\* WriteResults, then the publisher
IWrite ==
    /\ pc = "write"
    /\ cfg.Interactive
    /\ \E mk \in BOOLEAN, io \in 0..MaxTemplates :
          LET w == WriteResults(results, outputConfig, files, dirExists, mk, io)
          IN /\ results' = w.results
             /\ files' = w.files
             /\ dirExists' = w.dir
             /\ IF w.err # NoErr THEN Done("error", w.err)
                ELSE IF IPublishes(cfg, outputConfig)
                THEN pc' = "git" /\ UNCHANGED status
                ELSE Done("ok", NoErr)
    /\ UNCHANGED <<cfg, tparams, calls, outputConfig, registry, repos, cloneDir, g, remote,
                   prs, glog, edits>>

Next ==
    \/ NIResolve
    \/ NIValidate
    \/ RenderNext
    \/ NIWrite
    \/ NIRegistry
    \/ IStart
    \/ ReviewNoSuccess
    \/ ReviewContinue
    \/ ReviewCancel
    \/ ReviewEdit
    \/ IOutput
    \/ IWrite
    \/ GitEnter
    \/ GitAcquire
    \/ GitBranch
    \/ GitStage
    \/ GitCommit
    \/ GitPush
    \/ GitPR

Spec == Init /\ [][Next]_vars

\* ------------------------------------------------------------------------
\* The front of a run alone: resolve or select, validate, render, review
\* ------------------------------------------------------------------------
NextRender ==
    \/ NIResolve
    \/ NIValidate
    \/ RenderNext
    \/ IStart
    \/ ReviewNoSuccess
    \/ ReviewContinue
    \/ ReviewCancel
    \/ ReviewEdit

SpecRender == Init /\ [][NextRender]_vars

\* ------------------------------------------------------------------------
\* The Output Writer alone: WriteResults applied to any result list and any
\* output configuration, into a directory that does not exist yet
\* ------------------------------------------------------------------------
\* results as the render loop produces them, with every rendered text
WriterResults ==
    {RenderOutcome(TemplateParams(t, p), ok, c, FALSE) :
        t \in Catalog, p \in ParamMaps, ok \in BOOLEAN, c \in Contents}

InitWriter ==
    /\ pc = "write"
    /\ \E pattern \in Patterns, single \in BOOLEAN, dryRun \in BOOLEAN :
          /\ outputConfig = OutputConfig(pattern, single, dryRun)
          /\ cfg = [Interactive |-> FALSE, DryRun |-> dryRun, InRepo |-> FALSE,
                    GitConfig |-> NilGitConfig, Env |-> EmptyEnv, PRCreate |-> FALSE]
    /\ results \in SeqsUpTo(WriterResults, MaxTemplates)
    /\ tparams = <<>>
    /\ calls = <<>>
    /\ files = {}
    /\ dirExists = FALSE
    /\ registry = AbsentRegistry
    /\ repos = [local |-> NoRepo, clone |-> NoRepo]
    /\ cloneDir = "none"
    /\ g = NoHandle
    /\ remote = {}
    /\ prs = <<>>
    /\ glog = <<>>
    /\ edits = 0
    /\ status = Running

\* one call of WriteResults; mk: os.MkdirAll succeeds, io: how many
\* os.WriteFile calls succeed
WriterWrite ==
    /\ pc = "write"
    /\ \E mk \in BOOLEAN, io \in 0..MaxTemplates :
          LET w == WriteResults(results, outputConfig, files, dirExists, mk, io)
          IN /\ results' = w.results
             /\ files' = w.files
             /\ dirExists' = w.dir
             /\ IF w.err # NoErr THEN Done("error", w.err) ELSE Done("ok", NoErr)
    /\ UNCHANGED <<cfg, tparams, calls, outputConfig, registry, repos, cloneDir, g, remote,
                   prs, glog, edits>>

NextWriter == WriterWrite

SpecWriter == InitWriter /\ [][NextWriter]_vars

\* ------------------------------------------------------------------------
\* The registry update alone: updateRegistryForRender applied to any list of
\* results as WriteResults leaves them
\* ------------------------------------------------------------------------
\* results after the write: a rendered result has the path of its file, or
\* none (single-file mode); a failed one never has a path
RegistryResults ==
    LET rendered == {RenderOutcome(TemplateParams(t, p), ok, c, FALSE) :
                        t \in Catalog, p \in ParamMaps, ok \in BOOLEAN, c \in RunContents}
    IN {r \in rendered : r.Error}
       \cup {r \in rendered : ~r.Error}
       \cup {[r EXCEPT !.OutputPath = GenerateFilename(PatDefault,
                          [TemplateName |-> r.TemplateName,
                           ResourceName |-> r.ResourceName]).name] :
                r \in {x \in rendered : ~x.Error}}

InitRegistry ==
    /\ pc = "registry"
    /\ \E inRepo \in BOOLEAN,
          gc \in {NilGitConfig, GitConfig(TRUE, FALSE, FALSE, "", "url", "u", "")} :
          cfg = [Interactive |-> FALSE, DryRun |-> FALSE, InRepo |-> inRepo,
                 GitConfig |-> gc, Env |-> EmptyEnv, PRCreate |-> FALSE]
    /\ results \in SeqsUpTo(RegistryResults, MaxTemplates)
    /\ registry \in (IF cfg.InRepo THEN {AbsentRegistry, ExistingRegistry} ELSE {AbsentRegistry})
    /\ tparams = <<>>
    /\ calls = <<>>
    /\ outputConfig = OutputConfig(PatDefault, FALSE, FALSE)
    /\ files = {}
    /\ dirExists = TRUE
    /\ repos = [local |-> IF cfg.InRepo THEN InitialRepo ELSE NoRepo, clone |-> NoRepo]
    /\ cloneDir = "none"
    /\ g = NoHandle
    /\ remote = {}
    /\ prs = <<>>
    /\ glog = <<>>
    /\ edits = 0
    /\ status = Running

NextRegistry == NIRegistry

SpecRegistry == InitRegistry /\ [][NextRegistry]_vars

\* ------------------------------------------------------------------------
\* The registry list alone: AddEntry and RemoveEntry called in any order on a
\* registry that starts empty; calls records the calls made and their outcome
\* ------------------------------------------------------------------------
RegistryNames == {"legacy", "n1"}

\* two different entries for every name
RegistryEntries ==
    {OldEntry(n) : n \in RegistryNames}
      \cup {ClaimEntry(n, "tb", "cli", "origin-slug", <<"new.yaml">>, "now") :
               n \in RegistryNames}

RegistryCall(op, name, err) == [op |-> op, name |-> name, err |-> err]

InitRegistryOps ==
    /\ pc = "ops"
    /\ registry = [exists |-> TRUE, claims |-> NewRegistry]
    /\ calls = <<>>
    /\ cfg = [Interactive |-> FALSE, DryRun |-> FALSE, InRepo |-> TRUE,
              GitConfig |-> NilGitConfig, Env |-> EmptyEnv, PRCreate |-> FALSE]
    /\ tparams = <<>>
    /\ results = <<>>
    /\ outputConfig = NoOutputConfig
    /\ files = {}
    /\ dirExists = FALSE
    /\ repos = [local |-> NoRepo, clone |-> NoRepo]
    /\ cloneDir = "none"
    /\ g = NoHandle
    /\ remote = {}
    /\ prs = <<>>
    /\ glog = <<>>
    /\ edits = 0
    /\ status = Running

RegistryAdd ==
    /\ pc = "ops"
    /\ Len(calls) < MaxOps
    /\ \E entry \in RegistryEntries :
          /\ registry' = [registry EXCEPT !.claims = AddEntry(@, entry)]
          /\ calls' = Append(calls, RegistryCall("AddEntry", entry.Name, NoErr))
    /\ UNCHANGED <<pc, cfg, tparams, results, outputConfig, files, dirExists, repos,
                   cloneDir, g, remote, prs, glog, edits, status>>

RegistryRemove ==
    /\ pc = "ops"
    /\ Len(calls) < MaxOps
    /\ \E name \in RegistryNames :
          LET r == RemoveEntry(registry.claims, name)
          IN /\ registry' = [registry EXCEPT !.claims = r.claims]
             /\ calls' = Append(calls, RegistryCall("RemoveEntry", name, r.err))
    /\ UNCHANGED <<pc, cfg, tparams, results, outputConfig, files, dirExists, repos,
                   cloneDir, g, remote, prs, glog, edits, status>>

NextRegistryOps ==
    \/ RegistryAdd
    \/ RegistryRemove

SpecRegistryOps == InitRegistryOps /\ [][NextRegistryOps]_vars

\* ------------------------------------------------------------------------
\* Credential resolution alone: the entry of executeGitOperations for any
\* configured user and token, any environment, with and without push
\* ------------------------------------------------------------------------
\* environments: every variable unset or set
Environments ==
    [GIT_USER : {"", "env-user"}, GITHUB_USER : {"", "gh-user"},
     GIT_TOKEN : {"", "env-token"}, GITHUB_TOKEN : {"", "gh-token"}]

InitCredentials ==
    /\ pc = "git"
    /\ \E push \in BOOLEAN, user \in {"", "u"}, token \in {"", "t"}, env \in Environments :
          cfg = [Interactive |-> FALSE, DryRun |-> FALSE, InRepo |-> TRUE,
                 GitConfig |-> GitConfig(~push, push, FALSE, "", "", user, token),
                 Env |-> env, PRCreate |-> FALSE]
    /\ tparams = <<>>
    /\ results = <<>>
    /\ calls = <<>>
    /\ outputConfig = OutputConfig(PatDefault, FALSE, FALSE)
    /\ files = {}
    /\ dirExists = TRUE
    /\ registry = AbsentRegistry
    /\ repos = [local |-> InitialRepo, clone |-> NoRepo]
    /\ cloneDir = "none"
    /\ g = NoHandle
    /\ remote = {}
    /\ prs = <<>>
    /\ glog = <<>>
    /\ edits = 0
    /\ status = Running

NextCredentials == GitEnter

SpecCredentials == InitCredentials /\ [][NextCredentials]_vars

\* ------------------------------------------------------------------------
\* The branch operations alone: CreateBranch and CheckoutBranch called in any
\* order on the local repository, whose worktree holds the written files as
\* untracked files; glog records the calls made and their outcome
\* ------------------------------------------------------------------------
BranchNames == {"main", "dev", "feat"}

\* files WriteResults left in the worktree
WrittenFiles ==
    {[name |-> <<"ta", "-", "n1", ".yaml">>, content |-> <<"a">>],
     [name |-> <<"tb", "-", "output", ".yaml">>, content |-> <<NL, "b", NL>>]}

BranchCall(op, name, err) == [op |-> op, name |-> name, err |-> err]

InitBranch ==
    /\ pc = "branchops"
    /\ files \in SUBSET WrittenFiles
    /\ repos = [local |-> InitialRepo, clone |-> NoRepo]
    /\ g = [target |-> "local", auth |-> FALSE, user |-> "", token |-> ""]
    /\ glog = <<>>
    /\ cfg = [Interactive |-> FALSE, DryRun |-> FALSE, InRepo |-> TRUE,
              GitConfig |-> NilGitConfig, Env |-> EmptyEnv, PRCreate |-> FALSE]
    /\ tparams = <<>>
    /\ results = <<>>
    /\ calls = <<>>
    /\ outputConfig = OutputConfig(PatDefault, FALSE, FALSE)
    /\ dirExists = TRUE
    /\ registry = AbsentRegistry
    /\ cloneDir = "none"
    /\ remote = {}
    /\ prs = <<>>
    /\ edits = 0
    /\ status = Running

BranchCreate ==
    /\ pc = "branchops"
    /\ Len(glog) < MaxOps
    /\ \E name \in BranchNames, lib \in {"ok", "fail", "failcheckout"} :
          LET b == CreateBranch(Target, name, lib)
          IN /\ repos' = [repos EXCEPT ![g.target] = b.repo]
             /\ files' = IF b.err = NoErr THEN CheckoutKeep(files) ELSE files
             /\ glog' = Append(glog, BranchCall("CreateBranch", name, b.err))
    /\ UNCHANGED <<pc, cfg, tparams, results, calls, outputConfig, dirExists, registry,
                   cloneDir, g, remote, prs, edits, status>>

BranchCheckout ==
    /\ pc = "branchops"
    /\ Len(glog) < MaxOps
    /\ \E name \in BranchNames, lib \in {"ok", "fail"} :
          LET b == CheckoutBranch(Target, name, lib)
          IN /\ repos' = [repos EXCEPT ![g.target] = b.repo]
             /\ files' = IF b.err = NoErr THEN CheckoutKeep(files) ELSE files
             /\ glog' = Append(glog, BranchCall("CheckoutBranch", name, b.err))
    /\ UNCHANGED <<pc, cfg, tparams, results, calls, outputConfig, dirExists, registry,
                   cloneDir, g, remote, prs, edits, status>>

NextBranch ==
    \/ BranchCreate
    \/ BranchCheckout

SpecBranch == InitBranch /\ [][NextBranch]_vars

\* ------------------------------------------------------------------------
\* MergeParams alone: any file map merged with any inline map, and the same
\* inline map merged into the result once more; tparams holds the maps of the
\* program: the file map, the inline map, then each map MergeParams returned
\* ------------------------------------------------------------------------
MergeKeys == {"name", "cpu"}
MergeValues == {"n1", "n2"}

\* maps over the keys, each key absent or bound to a value
MergeMaps ==
    {m \in SUBSET (MergeKeys \X MergeValues) :
        \A a, b \in m : a[1] = b[1] => a = b}

InitMerge ==
    /\ pc = "merge"
    /\ \E file \in MergeMaps, inline \in MergeMaps :
          tparams = <<TemplateParams("file", file), TemplateParams("inline", inline)>>
    /\ cfg = [Interactive |-> FALSE, DryRun |-> FALSE, InRepo |-> FALSE,
              GitConfig |-> NilGitConfig, Env |-> EmptyEnv, PRCreate |-> FALSE]
    /\ results = <<>>
    /\ calls = <<>>
    /\ outputConfig = NoOutputConfig
    /\ files = {}
    /\ dirExists = FALSE
    /\ registry = AbsentRegistry
    /\ repos = [local |-> NoRepo, clone |-> NoRepo]
    /\ cloneDir = "none"
    /\ g = NoHandle
    /\ remote = {}
    /\ prs = <<>>
    /\ glog = <<>>
    /\ edits = 0
    /\ status = Running

\* result := MergeParams(m, inline), m being the file map at first and the
\* map returned last afterwards; the maps handed in are read only
MergeCall ==
    /\ pc = "merge"
    /\ Len(tparams) < MaxOps + 2
    /\ LET m == IF Len(tparams) = 2 THEN tparams[1].Parameters
                ELSE tparams[Len(tparams)].Parameters
       IN tparams' = Append(tparams,
                            TemplateParams("merged", MergeParams(m, tparams[2].Parameters)))
    /\ UNCHANGED <<pc, cfg, results, calls, outputConfig, files, dirExists, registry,
                   repos, cloneDir, g, remote, prs, glog, edits, status>>

NextMerge == MergeCall

SpecMerge == InitMerge /\ [][NextMerge]_vars

\* ------------------------------------------------------------------------
\* Properties: render loop and validation (checked under SpecRender)
\* ------------------------------------------------------------------------
\* C1: once the render loop is over the result list holds exactly one result
\* per requested template entry, in request order, in both modes; every
\* entry was sent to the render service in turn, a failed call is recorded on
\* the result of its own entry, and the entries after it are still rendered.
C1_OneResultPerTemplate ==
    /\ Len(results) <= Len(tparams)
    /\ Len(results) <= Len(calls)
    /\ \A i \in 1..Len(results) :
          /\ results[i].TemplateName = tparams[i].Name
          /\ calls[i].name = tparams[i].Name
          /\ (edits = 0) => (results[i].Error = ~calls[i].ok)
    /\ (calls # <<>> /\ pc # "render") => Len(results) = Len(tparams)

\* the loop is over, its first render failed and its second one succeeded
C1_Witness ==
    /\ pc \in {"review", "write"}
    /\ Len(tparams) = 2
    /\ Len(results) = 2
    /\ results[1].Error
    /\ ~results[2].Error
    /\ ~calls[1].ok

SomeUnknown(tps) == \E i \in 1..Len(tps) : tps[i].Name \notin Catalog

\* C3: no render request is sent unless every selected template name is in
\* the fetched catalog; with an unknown name among the selected ones the run
\* ends in an error (template not found, or the catalog could not be
\* fetched) before the first render request.
C3_ValidatedBeforeRender ==
    /\ \A i \in 1..Len(calls) : calls[i].name \in Catalog
    /\ (calls # <<>>) => ~SomeUnknown(tparams)
    /\ (status.err = "template not found") => (calls = <<>> /\ status.state = "error")
    /\ (SomeUnknown(tparams) /\ pc = "done") =>
          /\ calls = <<>>
          /\ status.state = "error"
          /\ status.err \in {"template not found", "fetching templates"}

\* a run that asked for an unknown template has ended without any render call
C3_Witness ==
    /\ pc = "done"
    /\ SomeUnknown(tparams)
    /\ status = [state |-> "error", err |-> "template not found"]
    /\ calls = <<>>

\* ------------------------------------------------------------------------
\* Properties: whole run (checked under Spec)
\* ------------------------------------------------------------------------
\* C2: whenever at least one template failed to render, the run ends with an
\* error status, in the non-interactive and in the interactive flow.
C2_FailedRenderEndsInError ==
    (pc = "done" /\ HasErrors(results)) => status.state = "error"

\* an interactive run with a failed render wrote the successful artifacts and
\* ended with status ok
C2_InteractiveEndsOk ==
    /\ pc = "done"
    /\ cfg.Interactive
    /\ HasErrors(results)
    /\ files # {}
    /\ status.state = "ok"

StepOK(step) == \E i \in 1..Len(glog) : glog[i] = [step |-> step, ok |-> TRUE]
StepFailed == \E i \in 1..Len(glog) : ~glog[i].ok

\* no publisher step is logged after a failed one
NoStepAfterFailure == \A i \in 1..Len(glog) : ~glog[i].ok => i = Len(glog)

\* a failed step ends the publisher at once and the run ends in an error
ErrorReturned == StepFailed => (pc = "done" /\ status.state = "error")

\* the branch step, the staging and the commit that completed are still
\* visible in repository r
ProgressKept(r) ==
    /\ StepOK("branch") =>
          (r.exists /\ HasBranch(r, cfg.GitConfig.Branch) /\ r.cur = cfg.GitConfig.Branch)
    /\ (StepOK("stage") /\ ~StepOK("commit")) => (r.exists /\ r.staged # {})
    /\ StepOK("commit") =>
          (r.exists /\ Len(r.commits) = 1 /\ HeadCommit(r) = r.commits[1].id)

\* C4 as stated: when a publisher step fails no later step runs, the error is
\* returned, and the effects of the completed steps (created branch, local
\* commit) remain in place in the repository the publisher worked on.
C4_AllProgressRemains ==
    /\ NoStepAfterFailure
    /\ ErrorReturned
    /\ (StepFailed /\ g.target # "none") => ProgressKept(repos[g.target])

\* C4: when a publisher step fails no later step runs and the error is
\* returned; in the local-repository workflow the effects of the completed
\* steps (branch, staged files, commit) remain in place, while in the clone
\* workflow the temporary clone they were made in is removed on return.
C4_LocalProgressRemains ==
    /\ NoStepAfterFailure
    /\ ErrorReturned
    /\ (StepFailed /\ g.target = "local") => ProgressKept(repos.local)
    /\ (pc = "done" /\ g.target = "clone") => (repos.clone = NoRepo /\ cloneDir = "removed")
    /\ (g.target = "clone") => repos.local = (IF cfg.InRepo THEN InitialRepo ELSE NoRepo)

\* local workflow: the branch was created, the commit made, then the push failed
C4_Witness ==
    /\ pc = "done"
    /\ g.target = "local"
    /\ cfg.GitConfig.CreateBranch
    /\ StepOK("branch")
    /\ StepOK("commit")
    /\ glog[Len(glog)] = [step |-> "push", ok |-> FALSE]
    /\ status.state = "error"
    /\ HasBranch(repos.local, "feat")
    /\ Len(repos.local.commits) = 1

Rank(step) ==
    CASE step = "credentials" -> 0
      [] step = "acquire" -> 1
      [] step = "branch" -> 2
      [] step = "stage" -> 3
      [] step = "commit" -> 4
      [] step = "push" -> 5
      [] step = "pr" -> 6

\* C5: in one publisher invocation the stages run in the order commit, push,
\* PR, each at most once; a push is attempted only after a successful commit
\* and PR creation only after a successful push of the same invocation.
C5_CommitPushPROrder ==
    \A i \in 1..Len(glog) :
       /\ \A j \in 1..(i - 1) : Rank(glog[j].step) < Rank(glog[i].step)
       /\ (glog[i].step = "push") =>
             \E j \in 1..(i - 1) : glog[j] = [step |-> "commit", ok |-> TRUE]
       /\ (glog[i].step = "pr") =>
             \E j \in 1..(i - 1) : glog[j] = [step |-> "push", ok |-> TRUE]

\* push was asked for without commit: the commit, the push and the PR all ran
C5_Witness ==
    /\ pc = "done"
    /\ ~cfg.GitConfig.Commit
    /\ cfg.GitConfig.Push
    /\ StepOK("commit")
    /\ StepOK("push")
    /\ StepOK("pr")
    /\ Len(prs) = 1

PublisherStages == {"registry", "git", "acquire", "branch", "stage", "commit", "push", "pr"}

\* C6: under dry-run, whatever the commit/push/branch/PR options, neither the
\* registry update nor any publisher stage runs: no clone, no branch created
\* or checked out, nothing staged, no commit (HEAD as before the run), no
\* push, no PR, and the registry is as it was.
C6_DryRunPublishesNothing ==
    cfg.DryRun =>
       /\ pc \notin PublisherStages
       /\ glog = <<>>
       /\ g = NoHandle
       /\ repos = [local |-> IF cfg.InRepo THEN InitialRepo ELSE NoRepo, clone |-> NoRepo]
       /\ cloneDir = "none"
       /\ remote = {}
       /\ prs = <<>>
       /\ registry \in {AbsentRegistry, ExistingRegistry}

\* a dry run inside a repository, with push, a new branch and a PR asked
\* for, has ended successfully
C6_Witness ==
    /\ pc = "done"
    /\ cfg.DryRun
    /\ cfg.InRepo
    /\ cfg.GitConfig.Push
    /\ cfg.GitConfig.CreateBranch
    /\ cfg.PRCreate
    /\ SuccessCount(results) > 0
    /\ status.state = "ok"

\* ------------------------------------------------------------------------
\* Properties: Output Writer (checked under SpecWriter)
\* ------------------------------------------------------------------------
\* a call of WriteResults that wrote for real, in the given mode, has returned nil
Wrote(single) ==
    /\ pc = "done"
    /\ status.state = "ok"
    /\ ~outputConfig.DryRun
    /\ outputConfig.SingleFile = single

\* C7: in dry-run mode the Output Writer creates neither the output
\* directory nor any file and records no output path, for every result list,
\* in single-file and in separate mode; it returns no error.
C7_DryRunCreatesNothing ==
    outputConfig.DryRun =>
       /\ ~dirExists
       /\ files = {}
       /\ \A i \in 1..Len(results) : results[i].OutputPath = NoPath
       /\ (pc = "done") => status.state = "ok"

\* a dry run over two successful results has returned
C7_Witness ==
    /\ pc = "done"
    /\ outputConfig.DryRun
    /\ Len(results) = 2
    /\ SuccessCount(results) = 2
    /\ status.state = "ok"

\* C8: in separate mode a successful write over N results of which K carry
\* no error leaves exactly K files in the output directory, one per
\* successful result, and none for a failed result.
C8_OneFilePerSuccess ==
    Wrote(FALSE) =>
       /\ Cardinality(files) = SuccessCount(results)
       /\ \A i \in 1..Len(results) :
             IF results[i].Error THEN results[i].OutputPath = NoPath
             ELSE [name |-> results[i].OutputPath, content |-> results[i].Content] \in files

\* two successful results were written in separate mode and one file exists
C8_Overwritten ==
    /\ Wrote(FALSE)
    /\ SuccessCount(results) = 2
    /\ Cardinality(files) = 1

RECURSIVE Count(_, _)
Count(s, x) ==
    IF s = <<>> THEN 0 ELSE (IF Head(s) = x THEN 1 ELSE 0) + Count(Tail(s), x)

\* the documents of a text: its pieces between separators, each trimmed
RECURSIVE Documents(_, _)
Documents(s, cur) ==
    IF s = <<>> THEN <<TrimSpace(cur)>>
    ELSE IF Head(s) = SEP THEN <<TrimSpace(cur)>> \o Documents(Tail(s), <<>>)
    ELSE Documents(Tail(s), Append(cur, Head(s)))

\* the trimmed texts of the results without error, in list order
RECURSIVE SuccessTexts(_)
SuccessTexts(rs) ==
    IF rs = <<>> THEN <<>>
    ELSE (IF Head(rs).Error THEN <<>> ELSE <<TrimSpace(Head(rs).Content)>>)
         \o SuccessTexts(Tail(rs))

\* C9 as stated: the combined file of every result list holds exactly
\* N_success - 1 separators and the successful artifacts in selection order.
C9_AlwaysOneSeparatorLess ==
    Wrote(TRUE) =>
       \E f \in files :
          /\ files = {f}
          /\ Count(f.content, SEP) = SuccessCount(results) - 1
          /\ (SuccessCount(results) > 0) => Documents(f.content, <<>>) = SuccessTexts(results)

\* C9: the combined file holds the trimmed successful artifacts in selection
\* order with exactly N_success - 1 separators between them when
\* N_success >= 1; when no result succeeded the file is still written, empty
\* and without separator.
C9_SeparatorsBetweenSuccesses ==
    Wrote(TRUE) =>
       \E f \in files :
          /\ files = {f}
          /\ IF SuccessCount(results) = 0 THEN f.content = <<>>
             ELSE /\ Count(f.content, SEP) = SuccessCount(results) - 1
                  /\ Documents(f.content, <<>>) = SuccessTexts(results)

\* two successful results with different texts were combined
C9_Witness ==
    /\ Wrote(TRUE)
    /\ SuccessCount(results) = 2
    /\ TrimSpace(results[1].Content) # TrimSpace(results[2].Content)
    /\ \E f \in files : Count(f.content, SEP) = 1

FirstSuccess(rs) ==
    CHOOSE i \in 1..Len(rs) : ~rs[i].Error /\ \A j \in 1..(i - 1) : rs[j].Error

ConfigError(err) ==
    err \in {"git credentials required", "output directory is not in a git repository"}

\* the run has written entries into the registry
RegistryTouched ==
    \E i \in 1..Len(registry.claims) : registry.claims[i].CreatedAt = "now"

\* result r was rendered and written to a file of its own
Written(r) == ~r.Error /\ r.OutputPath # NoPath

\* C11: when a run ends with a credential error or with the error that the
\* output directory is not inside a repository, it has written no rendered
\* artifact to disk and has not modified the registry.
C11_AbortsBeforeOutput ==
    (pc = "done" /\ ConfigError(status.err)) => (files = {} /\ ~RegistryTouched)

\* C11, the run the source makes: push without a resolvable token is refused
\* after the artifacts were written and registered
C11_WrittenBeforeAbort ==
    /\ pc = "done"
    /\ status = [state |-> "error", err |-> "git credentials required"]
    /\ cfg.GitConfig.Push
    /\ \E i \in 1..Len(results) :
          Written(results[i]) /\ \E f \in files : f.name = results[i].OutputPath
    /\ RegistryTouched

\* the registry holds an entry that this run wrote for the resource of r
Registered(r) ==
    /\ registry.exists
    /\ \E i \in 1..Len(registry.claims) :
          registry.claims[i].Name = r.ResourceName /\ registry.claims[i].CreatedAt = "now"

\* C12: a finished run that was not a dry run and whose output directory lies
\* in a repository has an entry in claims/registry.yaml, written by this run,
\* for the resource name of every artifact it wrote.
C12_WrittenArtifactRegistered ==
    (pc = "done" /\ ~outputConfig.DryRun /\ cfg.InRepo)
        => \A i \in 1..Len(results) : Written(results[i]) => Registered(results[i])

\* C12, the run the source makes: an interactive run saves an artifact into a
\* repository that has a registry and ends well without touching the registry
C12_InteractiveUnregistered ==
    /\ pc = "done"
    /\ cfg.Interactive /\ cfg.InRepo /\ ~outputConfig.DryRun
    /\ status.state = "ok"
    /\ \E i \in 1..Len(results) :
          Written(results[i]) /\ \E f \in files : f.name = results[i].OutputPath
    /\ registry = ExistingRegistry

\* ------------------------------------------------------------------------
\* Properties: the registry update (checked under SpecRegistry)
\* ------------------------------------------------------------------------
\* entry e is the entry the update writes for result r
EntryOf(e, r) ==
    /\ e.Name = r.ResourceName
    /\ e.Template = r.TemplateName
    /\ e.Path = r.OutputPath
    /\ e.CreatedAt = "now"

\* the step from registry file old to registry file new is an upsert of the
\* written results of rs and nothing else
UpsertOnly(old, new, rs) ==
    /\ \A j \in 1..Len(new.claims) :
          \/ j <= Len(old.claims) /\ new.claims[j] = old.claims[j]
          \/ \E i \in 1..Len(rs) : Written(rs[i]) /\ EntryOf(new.claims[j], rs[i])
    /\ \A i \in 1..Len(old.claims) :
          (\A k \in 1..Len(rs) : rs[k].ResourceName # old.claims[i].Name)
              => (i <= Len(new.claims) /\ new.claims[i] = old.claims[i])
    /\ Len(old.claims) <= Len(new.claims)
    /\ Len(new.claims) <= Len(old.claims) + Cardinality({i \in 1..Len(rs) : Written(rs[i])})
    /\ new # old =>
          /\ new.exists
          /\ \A i \in 1..Len(rs) :
                Written(rs[i]) => \E j \in 1..Len(new.claims) :
                                     new.claims[j].Name = rs[i].ResourceName
                                     /\ new.claims[j].CreatedAt = "now"
          /\ \A j, k \in 1..Len(new.claims) :
                (new.claims[j].Name = new.claims[k].Name /\ new.claims[j].CreatedAt = "now")
                    => j = k

C14_CreatesMissingRegistry ==
    [][(pc = "registry" /\ cfg.InRepo /\ ~registry.exists
            /\ \E i \in 1..Len(results) : Written(results[i]))
        => (registry'.exists
            /\ \A i \in 1..Len(results) :
                  Written(results[i]) => \E j \in 1..Len(registry'.claims) :
                                            EntryOf(registry'.claims[j], results[i]))]_vars

\* C14, the run the source makes: the update is over, the repository has a
\* written result and still no registry file
C14_StillMissing ==
    /\ pc = "git"
    /\ cfg.InRepo
    /\ \E i \in 1..Len(results) : Written(results[i])
    /\ ~registry.exists

\* ------------------------------------------------------------------------
\* Properties: AddEntry and RemoveEntry (checked under SpecRegistryOps)
\* ------------------------------------------------------------------------
HasName(claims, name) == \E i \in 1..Len(claims) : claims[i].Name = name

\* what the call recorded last did to the list
CallEffect(op, old, new) ==
    /\ (op.op = "AddEntry" /\ HasName(old, op.name))
          => (Len(new) = Len(old)
              /\ \A i \in 1..Len(old) : old[i].Name # op.name => new[i] = old[i])
    /\ (op.op = "AddEntry" /\ ~HasName(old, op.name))
          => (Len(new) = Len(old) + 1 /\ SubSeq(new, 1, Len(old)) = old)
    /\ op.op = "AddEntry" => HasName(new, op.name)
    /\ (op.op = "RemoveEntry" /\ ~HasName(old, op.name))
          => (op.err # NoErr /\ new = old)
    /\ (op.op = "RemoveEntry" /\ HasName(old, op.name))
          => (op.err = NoErr /\ ~HasName(new, op.name) /\ Len(new) = Len(old) - 1)

\* C15: starting from an empty registry, after any sequence of AddEntry and
\* RemoveEntry calls the list holds at most one entry per name; AddEntry of a
\* name that is present replaces that entry and AddEntry of a new name appends
\* one; RemoveEntry of an absent name returns an error and leaves the list as
\* it was, RemoveEntry of a present name removes its entry.
C15_OneEntryPerName ==
    /\ [](\A i, j \in 1..Len(registry.claims) :
             registry.claims[i].Name = registry.claims[j].Name => i = j)
    /\ [][Len(calls') = Len(calls) + 1
            => CallEffect(calls'[Len(calls')], registry.claims, registry'.claims)]_vars

\* C15: an entry was added, replaced by another entry of the same name, and
\* the removal of an absent name failed; the list holds the replacement only
C15_Witness ==
    /\ pc = "ops"
    /\ Len(calls) = 3
    /\ calls[1] = RegistryCall("AddEntry", "n1", NoErr)
    /\ calls[2] = RegistryCall("AddEntry", "n1", NoErr)
    /\ calls[3].op = "RemoveEntry" /\ calls[3].name = "legacy" /\ calls[3].err # NoErr
    /\ Len(registry.claims) = 1
    /\ registry.claims[1].Name = "n1" /\ registry.claims[1].CreatedAt = "now"

\* ------------------------------------------------------------------------
\* Properties: staging, credentials and the clone (checked under Spec)
\* ------------------------------------------------------------------------
\* the publisher was enabled and started on its steps
PublisherRan == glog # <<>>

Attempted(step) == \E k \in 1..Len(glog) : glog[k].step = step

\* no repository holds a commit of this run and every branch points at a
\* commit that existed before the run
NoNewCommit(r) ==
    /\ r.commits = <<>>
    /\ \A b \in r.branches : \E b0 \in InitialRepo.branches : b.commit = b0.commit

\* C16: when the publisher has run and no successful result has an output
\* path, it has failed; if it came as far as staging, the error is the
\* nothing-to-commit error; no commit was created (every branch tip is a
\* commit from before the invocation), nothing was pushed and no pull request
\* was opened.
C16_NothingToStage ==
    (pc = "done" /\ PublisherRan /\ CollectPaths(results) = <<>>)
        => /\ status.state = "error"
           /\ Attempted("stage") =>
                 (StepFailed /\ ~StepOK("stage") /\ status.err = "no files to commit")
           /\ ~Attempted("commit") /\ ~Attempted("push") /\ ~Attempted("pr")
           /\ NoNewCommit(repos.local) /\ NoNewCommit(repos.clone)
           /\ remote = {} /\ prs = <<>>

\* C16: a combined file was written, so no result has an output path; the
\* publisher created and checked out the branch, then refused to commit
C16_Witness ==
    /\ pc = "done"
    /\ status = [state |-> "error", err |-> "no files to commit"]
    /\ SuccessCount(results) > 0 /\ CollectPaths(results) = <<>>
    /\ files # {}
    /\ StepOK("branch") /\ Attempted("stage")
    /\ repos.local.cur = "feat"
    /\ HeadCommit(repos.local) = TipOf(InitialRepo, "main")

\* ------------------------------------------------------------------------
\* Properties: credential resolution (checked under SpecCredentials)
\* ------------------------------------------------------------------------
\* the value of a chain of sources: the first that is not empty
Precedence(sources) ==
    IF \E i \in 1..Len(sources) : sources[i] # ""
    THEN sources[CHOOSE i \in 1..Len(sources) :
                    sources[i] # "" /\ \A j \in 1..(i - 1) : sources[j] = ""]
    ELSE ""

\* credentials were resolved to user and token: without push they are handed
\* on as they are, missing or not; with push both must be there, else the
\* resolution ends the publisher with the credentials error
ResolvedAs(user, token) ==
    pc # "git" =>
        IF cfg.GitConfig.Push /\ (user = "" \/ token = "")
        THEN pc = "done" /\ status = [state |-> "error", err |-> "git credentials required"]
        ELSE pc = "acquire" /\ status = Running /\ g.user = user /\ g.token = token

CloneWrite ==
    /\ ~cfg.GitConfig.Nil
    /\ cfg.GitConfig.RepoURL # ""
    /\ cfg.GitConfig.Commit \/ cfg.GitConfig.Push

\* neither the configuration nor the environment yields both a user and a token
Unresolvable ==
    \/ Precedence(<<cfg.GitConfig.User, cfg.Env.GIT_USER, cfg.Env.GITHUB_USER>>) = ""
    \/ Precedence(<<cfg.GitConfig.Token, cfg.Env.GIT_TOKEN, cfg.Env.GITHUB_TOKEN>>) = ""

\* C18: in the clone workflow with a commit or a push asked for and no
\* resolvable user or token, the publisher does not clone and does not commit,
\* and when it has ended it has ended with the credentials error.
C18_CloneNeedsCredentials ==
    (CloneWrite /\ Unresolvable)
        => /\ ~Attempted("acquire") /\ ~Attempted("commit")
           /\ cloneDir = "none"
           /\ (pc = "done" /\ PublisherRan) => status.err = "git credentials required"

\* C18, the run the source makes: commit-only with a remote URL and no
\* credentials clones anonymously, commits in the clone and ends well
C18_AnonymousCloneCommit ==
    /\ pc = "done"
    /\ CloneWrite /\ ~cfg.GitConfig.Push /\ Unresolvable
    /\ StepOK("acquire") /\ StepOK("commit")
    /\ cloneDir = "removed"
    /\ status.state = "ok"

\* C19: a temporary clone directory exists only while the publisher is at
\* work between a successful clone and its return: once the run has ended,
\* whether the publisher succeeded, failed at a later step or failed to clone,
\* the directory and the clone in it are gone.
C19_CloneRemovedOnReturn ==
    /\ cloneDir = "present" => pc \in {"branch", "stage", "commit", "push", "pr"}
    /\ repos.clone.exists => cloneDir = "present"
    /\ (pc = "done" /\ Attempted("acquire") /\ cfg.GitConfig.RepoURL # "")
          => cloneDir = "removed"

\* C19: the clone succeeded, a later step failed, the publisher returned and
\* the directory is removed
C19_Witness ==
    /\ pc = "done"
    /\ cfg.GitConfig.RepoURL # ""
    /\ StepOK("acquire") /\ StepFailed
    /\ status.state = "error"
    /\ cloneDir = "removed" /\ ~repos.clone.exists

\* ------------------------------------------------------------------------
\* Properties: CreateBranch (checked under SpecBranch)
\* ------------------------------------------------------------------------
\* what a successful CreateBranch(name) has done to repository old and to
\* the untracked files was
BranchCreated(name, old, new, was, now) ==
    /\ new.cur = name
    /\ HasBranch(new, name)
    /\ TipOf(new, name) = HeadCommit(old)
    /\ \A b \in old.branches : b.name # name => b \in new.branches
    /\ now = was

\* C20: after a successful CreateBranch(name) the current branch is name,
\* name points at the commit that was HEAD immediately before the call, the
\* other branches are as they were, and every untracked file written into
\* the worktree before the call is still there with the same content.
C20_BranchFromHeadKeepsFiles ==
    [][(Len(glog') = Len(glog) + 1
          /\ glog'[Len(glog')].op = "CreateBranch"
          /\ glog'[Len(glog')].err = NoErr)
        => BranchCreated(glog'[Len(glog')].name, repos.local, repos'.local,
                         files, files')]_vars

\* C20: dev was checked out, then feat was created from it: feat is the
\* current branch at the commit of dev and both written files are in place
C20_Witness ==
    /\ pc = "branchops"
    /\ Len(glog) = 2
    /\ glog[1] = BranchCall("CheckoutBranch", "dev", NoErr)
    /\ glog[2] = BranchCall("CreateBranch", "feat", NoErr)
    /\ repos.local.cur = "feat"
    /\ TipOf(repos.local, "feat") = TipOf(InitialRepo, "dev")
    /\ files = WrittenFiles

\* ------------------------------------------------------------------------
\* Properties: the review without a successful result (checked under Spec)
\* ------------------------------------------------------------------------
\* nothing was written, registered or published
NothingSaved ==
    /\ files = {} /\ ~dirExists
    /\ ~RegistryTouched
    /\ glog = <<>> /\ remote = {} /\ prs = <<>>

\* C21: when the review is entered with no successful result, the only step
\* the run takes is the one that ends it, without a prompt (nothing is chosen:
\* no edit, no output configuration), and neither then nor before has a file
\* been written, the registry been updated or a publisher step been taken;
\* an interactive run that ends with no successful result has saved nothing.
C21_NoSuccessEndsRun ==
    /\ [](pc = "review" => NothingSaved)
    /\ []((pc = "done" /\ cfg.Interactive /\ Len(results) > 0 /\ SuccessCount(results) = 0)
            => NothingSaved)
    /\ [][(pc = "review" /\ SuccessCount(results) = 0)
            => (pc' = "done" /\ NothingSaved'
                /\ UNCHANGED <<results, calls, edits, outputConfig, cfg>>)]_vars

\* C21: an interactive run whose renders all failed has ended from the
\* review, with nothing saved
C21_Witness ==
    /\ pc = "done"
    /\ cfg.Interactive
    /\ Len(results) > 0 /\ SuccessCount(results) = 0
    /\ Len(calls) >= Len(results)
    /\ NothingSaved

\* ------------------------------------------------------------------------
\* Properties: editing in the review loop (checked under SpecRender)
\* ------------------------------------------------------------------------
\* C22 as stated: whenever the review offers its actions, every template of
\* the batch can be selected for the edit, failed or not.
C22_AnyTemplateEditable ==
    (pc = "review" /\ ReviewPrompts(results)) => EditOptions(results) = 1..Len(results)

\* C22: the edit can select exactly the templates whose current result is
\* successful: a step of the review loop re-renders and replaces only a
\* result without error, so a failed template is never redone.
C22_OnlySuccessfulEditable ==
    /\ [](pc = "review" => EditOptions(results) = {i \in 1..Len(results) : ~results[i].Error})
    /\ [][\A i \in 1..Len(results) :
             (edits' = edits + 1 /\ results'[i] # results[i]) => ~results[i].Error]_vars
    /\ [][(edits' = edits + 1 /\ Len(calls') = Len(calls) + 1)
            => \E i \in 1..Len(results) :
                  ~results[i].Error /\ calls'[Len(calls')].name = results[i].TemplateName]_vars

\* C22: the first template failed, the second was edited and re-rendered; the
\* failed one is as the render loop left it
C22_Witness ==
    /\ pc = "review"
    /\ edits = 1
    /\ Len(results) = 2 /\ Len(calls) = 3
    /\ results[1].Error /\ ~calls[1].ok
    /\ calls[3] = Call(results[2].TemplateName, TRUE)
    /\ results[1].TemplateName # results[2].TemplateName
    /\ ~results[2].Error

\* C23: every result whose error is set has empty content, at every point of
\* a run, edits and re-renders included.
C23_FailedHasNoContent ==
    \A i \in 1..Len(results) : results[i].Error => results[i].Content = <<>>

\* C23, the run the source makes: a rendered result was edited, the re-render
\* failed, and the result carries the error together with the earlier text
C23_StaleContent ==
    /\ pc = "review"
    /\ edits = 1
    /\ ~calls[Len(calls)].ok
    /\ \E i \in 1..Len(results) :
          /\ results[i].Error
          /\ results[i].Content # <<>>
          /\ calls[Len(calls)].name = results[i].TemplateName

\* C24: the resource name of every successful result is the string form of
\* the `name` parameter of the result's current parameters if there is one,
\* and "output" otherwise, at every point of a run.
C24_ResourceNameFromParams ==
    \A i \in 1..Len(results) :
        ~results[i].Error =>
            results[i].ResourceName =
                (IF \E kv \in results[i].Params : kv[1] = "name"
                 THEN Sprintv((CHOOSE kv \in results[i].Params : kv[1] = "name")[2])
                 ELSE "output")

\* C24, the run the source makes: a result rendered with name=n1 was edited
\* with the name left empty and re-rendered; it keeps the resource name n1
C24_StaleResourceName ==
    /\ pc = "review"
    /\ edits = 1
    /\ calls[Len(calls)].ok
    /\ \E i \in 1..Len(results) :
          /\ ~results[i].Error
          /\ results[i].Params = EmptyMap
          /\ results[i].ResourceName = "n1"

LeftByDecision ==
    /\ results' = results
    /\ \/ pc' = "output" /\ status' = status
       \/ pc' = "done" /\ status' \in {[state |-> "ok", err |-> NoErr],
                                       [state |-> "error", err |-> "review"]}

ValueAt(m, k) == IF \E kv \in m : kv[1] = k THEN (CHOOSE kv \in m : kv[1] = k)[2] ELSE ""

\* map m is the merge of file and inline
MergeOf(m, file, inline) ==
    \A k \in MergeKeys :
        ValueAt(m, k) = IF ValueAt(inline, k) # "" THEN ValueAt(inline, k)
                        ELSE ValueAt(file, k)

\* C26: the map MergeParams(file, inline) returns binds every inline key to
\* its inline value and every other file key to its file value, and binds no
\* other key; merging the same inline map into the result again returns an
\* equal map; the file map and the inline map handed in are never changed.
C26_MergeInlineWins ==
    /\ [](\A i \in 3..Len(tparams) :
             /\ MergeOf(tparams[i].Parameters, tparams[1].Parameters, tparams[2].Parameters)
             /\ tparams[i].Parameters = tparams[3].Parameters)
    /\ [][tparams'[1] = tparams[1] /\ tparams'[2] = tparams[2]]_vars

\* C26: a file map and an inline map that collide on one key and each have a
\* key of their own were merged twice
C26_Witness ==
    /\ pc = "merge"
    /\ Len(tparams) = 4
    /\ tparams[1].Parameters = {<<"name", "n1">>, <<"cpu", "n1">>}
    /\ tparams[2].Parameters = {<<"cpu", "n2">>}
    /\ tparams[3].Parameters = {<<"name", "n1">>, <<"cpu", "n2">>}
    /\ tparams[4].Parameters = tparams[3].Parameters

\* ------------------------------------------------------------------------
\* Properties: registry, branch and staged files of a publishing run
\* (checked under Spec)
\* ------------------------------------------------------------------------
\* C27: when a publisher step of a run has failed, the registry holds no
\* entry added or changed by that run.
C27_RegisteredOnlyIfPublished ==
    (pc = "done" /\ StepFailed) => ~RegistryTouched

\* C27, the run the source makes: the artifact was written and registered,
\* then the commit failed; the entry of the run is in the registry
C27_RegisteredThoughUnpublished ==
    /\ pc = "done"
    /\ Attempted("commit") /\ ~StepOK("commit")
    /\ status.state = "error"
    /\ \E i \in 1..Len(results) : Written(results[i]) /\ Registered(results[i])
    /\ repos.local.commits = <<>> /\ remote = {}

\* repository r has the branches it had before the run where they were, as
\* long as the run has not committed
TipsAsBefore(r, name) ==
    (r.exists /\ r.commits = <<>>)
        => \A b0 \in InitialRepo.branches :
              b0.name = name => TipOf(r, name) = b0.commit

\* C28: with createBranch set and a branch name that already exists, the
\* publisher does not move that branch: until the run commits, the branch
\* points where it pointed before, in the local repository and in the clone.
C28_ExistingBranchNotMoved ==
    (~cfg.GitConfig.Nil /\ cfg.GitConfig.CreateBranch)
        => /\ TipsAsBefore(repos.local, cfg.GitConfig.Branch)
           /\ TipsAsBefore(repos.clone, cfg.GitConfig.Branch)

\* C28, the run the source makes: dev existed at an older commit, the branch
\* step with createBranch has set it to the HEAD of main and checked it out
C28_ExistingBranchReset ==
    /\ cfg.GitConfig.CreateBranch /\ cfg.GitConfig.Branch = "dev"
    /\ StepOK("branch")
    /\ repos.local.commits = <<>>
    /\ repos.local.cur = "dev"
    /\ TipOf(InitialRepo, "dev") # TipOf(InitialRepo, "main")
    /\ TipOf(repos.local, "dev") = TipOf(InitialRepo, "main")

\* every file staged in or committed to repository r is a file the Output
\* Writer wrote (or the registry file)
OnlyWrittenFiles(r) ==
    /\ \A f \in r.staged : f.path = RegistryPath \/ f.origin = "written"
    /\ \A k \in 1..Len(r.commits) :
          \A f \in r.commits[k].files : f.path = RegistryPath \/ f.origin = "written"

\* C29: with a remote repository URL, the files staged and committed in the
\* clone are the files the Output Writer wrote.
C29_WrittenFilesCommitted ==
    (~cfg.GitConfig.Nil /\ cfg.GitConfig.RepoURL # "") => OnlyWrittenFiles(repos.clone)

\* C29, the run the source makes: the artifact was written to the output
\* directory before the clone existed; the commit in the clone holds the
\* clone's own file of that path, not the written one
C29_CloneCommitsOwnFile ==
    /\ cfg.GitConfig.RepoURL # ""
    /\ StepOK("commit")
    /\ cloneDir = "present"
    /\ \E i \in 1..Len(results) :
          /\ Written(results[i])
          /\ \E f \in files : f.name = results[i].OutputPath
          /\ \E k \in 1..Len(repos.clone.commits) :
                [path |-> results[i].OutputPath, origin |-> "checkout"]
                    \in repos.clone.commits[k].files

\* C30: a run in single-file mode with a successful render and a commit
\* asked for does not end with the nothing-to-commit error.
C30_CombinedFileCommitted ==
    (pc = "done" /\ outputConfig.SingleFile /\ SuccessCount(results) > 0
        /\ ~cfg.GitConfig.Nil /\ cfg.GitConfig.Commit)
        => status.err # "no files to commit"

\* C30, the run the source makes: the combined file is on disk, no result has
\* an output path, and the publisher has refused with nothing to commit
C30_CombinedFileNotStaged ==
    /\ pc = "done"
    /\ outputConfig.SingleFile /\ ~outputConfig.DryRun
    /\ cfg.GitConfig.Commit
    /\ SuccessCount(results) > 0
    /\ \E f \in files : f.name = CombinedFilename(results)
    /\ \A i \in 1..Len(results) : results[i].OutputPath = NoPath
    /\ Attempted("stage") /\ ~StepOK("stage")
    /\ status = [state |-> "error", err |-> "no files to commit"]
    /\ repos.local.commits = <<>>

====
